---- MODULE Spec2Model ----
(***************************************************************************)
(* DPS registration client (edgelet/dps/src/registration.rs).              *)
(*                                                                         *)
(* One DpsClient drives a register() flow: unsigned PUT, 401 challenge,    *)
(* signed PUT, bounded polling of the operation status, final key          *)
(* activation.  The service, the timer and the key store are the           *)
(* environment: their answers are drawn from small sets.                   *)
(***************************************************************************)
EXTENDS Integers, Sequences, FiniteSets, TLC

(***************************************************************************)
(* Bounds and program constants                                            *)
(***************************************************************************)
\* largest retry_count handed directly to get_device_registration_result
MaxRetryCount == 3

\* flows that use one DpsClient's shared client handle at a time
MaxFlows == 3

DPS_ASSIGNMENT_RETRY_INTERVAL_SECS == 10

DPS_ASSIGNMENT_TIMEOUT_SECS == 120

(***************************************************************************)
(* Option<T>: None is the empty tuple, Some(x) the one-element tuple.      *)
(***************************************************************************)
None == <<>>

Some(x) == <<x>>

Option(S) == {None} \cup {Some(x) : x \in S}

is_some(o) == Len(o) = 1

unwrap(o) == o[1]

(***************************************************************************)
(* Strings whose characters matter are sequences of one-character strings. *)
(***************************************************************************)
UpperCase ==
    <<"A", "B", "C", "D", "E", "F", "G", "H", "I", "J", "K", "L", "M",
      "N", "O", "P", "Q", "R", "S", "T", "U", "V", "W", "X", "Y", "Z">>

LowerCase ==
    <<"a", "b", "c", "d", "e", "f", "g", "h", "i", "j", "k", "l", "m",
      "n", "o", "p", "q", "r", "s", "t", "u", "v", "w", "x", "y", "z">>

to_ascii_lowercase(c) ==
    IF \E i \in DOMAIN UpperCase : UpperCase[i] = c
    THEN LowerCase[CHOOSE i \in DOMAIN UpperCase : UpperCase[i] = c]
    ELSE c

eq_ignore_ascii_case(a, b) ==
    /\ Len(a) = Len(b)
    /\ \A i \in 1..Len(a) : to_ascii_lowercase(a[i]) = to_ascii_lowercase(b[i])

STR_assigning == <<"a", "s", "s", "i", "g", "n", "i", "n", "g">>

STR_ASSIGNING == <<"A", "S", "S", "I", "G", "N", "I", "N", "G">>

STR_Assigning == <<"A", "s", "s", "i", "g", "n", "i", "n", "g">>

STR_assigned == <<"a", "s", "s", "i", "g", "n", "e", "d">>

STR_doesnt_matter ==
    <<"d", "o", "e", "s", "n", "'", "t", " ", "m", "a", "t", "t", "e", "r">>

StatusStrings ==
    {STR_assigning, STR_ASSIGNING, STR_Assigning, STR_assigned, STR_doesnt_matter}

(***************************************************************************)
(* Wire values                                                             *)
(***************************************************************************)
NoKey == "<absent>"

\* key material (the bytes a key is activated from)
KeyBytes == {"key", "finalkey"}

\* authenticationKey strings as they appear on the wire
AuthKeyStrings == {"a2V5", "ZmluYWxrZXk=", "!"}

\* base64::decode on the wire strings: Ok(bytes) or a decode error
base64_decode(s) ==
    CASE s = "a2V5" -> [ok |-> TRUE, bytes |-> "key"]
      [] s = "ZmluYWxrZXk=" -> [ok |-> TRUE, bytes |-> "finalkey"]
      [] OTHER -> [ok |-> FALSE, bytes |-> NoKey]

DeviceIds == {"device", "device2"}

Hubs == {"hub", "hub2"}

OperationIds == {"something", "operation"}

TpmRegistrationResult == [authentication_key : Option(AuthKeyStrings)]

DeviceRegistrationResult ==
    [registration_id : {"reg"},
     status : StatusStrings,
     device_id : Option(DeviceIds),
     assigned_hub : Option(Hubs),
     tpm : Option(TpmRegistrationResult)]

RegistrationOperationStatus ==
    [operation_id : OperationIds,
     registration_state : Option(DeviceRegistrationResult)]

\* body of a failed response: unparsable text, or a JSON TpmRegistrationResult
NoBody == [json |-> FALSE, authentication_key |-> None]

Bodies == {NoBody} \cup [json : {TRUE}, authentication_key : Option(AuthKeyStrings)]

\* errors of the HTTP client: a non-2xx answer, or any other failure
NoCause == [type |-> "none", status |-> 0]

HttpErrors ==
    [type : {"ServiceError"}, status : {401, 404, 500}] \cup
    {[type |-> "Hyper", status |-> 0]}

NoError == [kind |-> "none", cause |-> NoCause]

Err(kind) == [kind |-> kind, cause |-> NoCause]

\* Error::from(HttpError): ErrorKind::Http carrying the transport failure
ErrFromHttp(e) == [kind |-> "Http", cause |-> e]

(***************************************************************************)
(* State                                                                   *)
(***************************************************************************)
VARIABLES
    pc,              \* position of the flow
    entry,           \* "register" or "poll" (entry point of the flow)
    primary,         \* key store, slot (Device, "primary")
    primary0,        \* the slot when the flow started
    key,             \* key k captured for the status polls
    operation_id,    \* operation id the polls ask for
    retry_count,     \* tick budget given to the polling loop
    take_remaining,  \* what Take(retry_count) has left
    inflight,        \* status probes issued and not yet resolved
    final_result,    \* the first non-skippable poll result
    outcome,         \* what the flow's future resolved to
    events,          \* what the flow did, in order
    challenge,       \* the body of the 401 the unsigned PUT was answered with
    probed,          \* the last probe result and what is_skippable_result said
    signed_status,   \* what the answer to the signed PUT carried, once it is ok
    key_store_env,   \* whether the key store served the calls of the last step
    client,          \* the shared client handle: the token source bound to it
    token_source,    \* a DpsTokenSource, once one has been made
    token_call,      \* the last call of its get: inputs and result
    token_prev,      \* the call of get before that
    rwlock,          \* the RwLock of the shared client handle: who holds it
    flows            \* each concurrent flow: where it is with which request

flow_vars ==
    <<pc, entry, primary, primary0, key, operation_id, retry_count,
      take_remaining, inflight, final_result, outcome, events,
      challenge, probed, signed_status, key_store_env, client>>

token_vars == <<token_source, token_call, token_prev>>

lock_vars == <<rwlock, flows>>

vars == <<flow_vars, token_vars, lock_vars>>

\* an entry of `events`: what happened, the key a request was signed with,
\* the slot's content at that moment, and the transport failure observed
Ev(e, k, s) == [ev |-> e, key |-> k, slot |-> s, cause |-> NoCause]

EvErr(e, c, s) == [ev |-> e, key |-> NoKey, slot |-> s, cause |-> c]

Pending == [tag |-> "pending", pair |-> <<>>, result |-> None, error |-> NoError]

OkPair(p) == [tag |-> "ok", pair |-> p, result |-> None, error |-> NoError]

OkResult(r) == [tag |-> "ok", pair |-> <<>>, result |-> r, error |-> NoError]

Failed(e) == [tag |-> "err", pair |-> <<>>, result |-> None, error |-> e]

Cancelled == [tag |-> "cancelled", pair |-> <<>>, result |-> None, error |-> NoError]

(***************************************************************************)
(* Key store (edgelet_core::crypto KeyStore + Activate): one slot,         *)
(* (KeyIdentity::Device, "primary").  A call either succeeds or fails as   *)
(* a whole; whether it fails is the environment's choice.                  *)
(***************************************************************************)
activate_identity_key(slot, bytes, succeeds) ==
    IF succeeds THEN [ok |-> TRUE, slot |-> bytes]
    ELSE [ok |-> FALSE, slot |-> slot]

key_store_get(slot, succeeds) ==
    IF succeeds /\ slot # NoKey THEN [ok |-> TRUE, key |-> slot]
    ELSE [ok |-> FALSE, key |-> NoKey]

\* what the key store does with the calls of a step of the flow: the
\* environment's choice, kept for the properties
KeyStoreServes(step, act_ok, get_ok) ==
    [step |-> step, act_ok |-> act_ok, get_ok |-> get_ok]

(***************************************************************************)
(* Answers of the service                                                  *)
(***************************************************************************)
UnsignedResponses ==
    {[ok |-> TRUE, err |-> NoCause, body |-> NoBody]} \cup
    [ok : {FALSE}, err : HttpErrors, body : Bodies]

SignedResponses ==
    [ok : {TRUE}, err : {NoCause},
     status : Option([operation_id : OperationIds, registration_state : {None}])]
    \cup [ok : {FALSE}, err : HttpErrors, status : {None}]

\* the operation id of an answer to a status GET is not read by the flow
PolledOperationStatus ==
    {os \in RegistrationOperationStatus : os.operation_id = "operation"}

ProbeResponses ==
    [ok : {TRUE}, err : {NoCause}, status : Option(PolledOperationStatus)]
    \cup [ok : {FALSE}, err : HttpErrors, status : {None}]

\* what the service answered to the unsigned PUT, as the flow observes it
observed_unsigned(resp) ==
    IF resp.ok THEN "unsigned_ok"
    ELSE IF resp.err.type = "ServiceError" /\ resp.err.status = 401
         THEN "unsigned_401"
         ELSE "unsigned_err"

(***************************************************************************)
(* register_with_auth                                                      *)
(***************************************************************************)
\* mutant: every non-2xx answer is taken for a challenge
challenge_body_any_status(err, body) ==
    IF err.type = "ServiceError" THEN Some(body) ELSE None

\* the challenge body of a failed unsigned PUT: Some(body) only for a 401
challenge_body(err, body) ==
    IF err.type = "ServiceError"
    THEN IF err.status = 401 THEN Some(body) ELSE None
    ELSE None

\* Error::from(serde_json::Error)
ErrFromSerde == Err("Serde")

\* mutant: an unparsable body is read as a result without a key
parse_tpm_challenge_lenient(body) ==
    IF ~body.json
    THEN [ok |-> FALSE, key_str |-> "", error |-> Err("InvalidTpmToken")]
    ELSE IF ~is_some(body.authentication_key)
    THEN [ok |-> FALSE, key_str |-> "", error |-> Err("InvalidTpmToken")]
    ELSE [ok |-> TRUE, key_str |-> unwrap(body.authentication_key),
          error |-> NoError]

\* mutant: a missing key is read as the empty string
parse_tpm_challenge_default_key(body) ==
    IF ~body.json
    THEN [ok |-> FALSE, key_str |-> "", error |-> ErrFromSerde]
    ELSE IF ~is_some(body.authentication_key)
    THEN [ok |-> TRUE, key_str |-> "", error |-> NoError]
    ELSE [ok |-> TRUE, key_str |-> unwrap(body.authentication_key),
          error |-> NoError]

\* serde_json::from_str(body), then authentication_key().ok_or_else(..)
parse_tpm_challenge(body) ==
    IF ~body.json
    THEN [ok |-> FALSE, key_str |-> "", error |-> ErrFromSerde]
    ELSE IF ~is_some(body.authentication_key)
    THEN [ok |-> FALSE, key_str |-> "", error |-> Err("InvalidTpmToken")]
    ELSE [ok |-> TRUE, key_str |-> unwrap(body.authentication_key),
          error |-> NoError]

\* mutant: the key is read from the slot and nothing is activated
get_tpm_challenge_key_no_activate(body, slot, act_ok, get_ok) ==
    IF ~body.json
    THEN [ok |-> FALSE, key |-> NoKey, error |-> Err("Serde"),
          slot |-> slot, evs |-> <<>>]
    ELSE IF ~is_some(body.authentication_key)
    THEN [ok |-> FALSE, key |-> NoKey, error |-> Err("InvalidTpmToken"),
          slot |-> slot, evs |-> <<>>]
    ELSE LET g == key_store_get(slot, get_ok) IN
    IF ~g.ok
    THEN [ok |-> FALSE, key |-> NoKey, error |-> Err("KeyStore"),
          slot |-> slot, evs |-> <<>>]
    ELSE [ok |-> TRUE, key |-> g.key, error |-> NoError,
          slot |-> slot, evs |-> <<>>]

\* mutant: the key is read from the slot before the challenge key is activated
get_tpm_challenge_key_get_first(body, slot, act_ok, get_ok) ==
    IF ~body.json
    THEN [ok |-> FALSE, key |-> NoKey, error |-> Err("Serde"),
          slot |-> slot, evs |-> <<>>]
    ELSE IF ~is_some(body.authentication_key)
    THEN [ok |-> FALSE, key |-> NoKey, error |-> Err("InvalidTpmToken"),
          slot |-> slot, evs |-> <<>>]
    ELSE LET d == base64_decode(unwrap(body.authentication_key)) IN
    IF ~d.ok
    THEN [ok |-> FALSE, key |-> NoKey, error |-> Err("Base64"),
          slot |-> slot, evs |-> <<>>]
    ELSE LET g == key_store_get(slot, get_ok) IN
    IF ~g.ok
    THEN [ok |-> FALSE, key |-> NoKey, error |-> Err("KeyStore"),
          slot |-> slot, evs |-> <<>>]
    ELSE LET a == activate_identity_key(slot, d.bytes, act_ok) IN
    IF ~a.ok
    THEN [ok |-> FALSE, key |-> NoKey, error |-> Err("KeyStore"),
          slot |-> a.slot, evs |-> <<>>]
    ELSE [ok |-> TRUE, key |-> g.key, error |-> NoError,
          slot |-> a.slot, evs |-> <<Ev("activate", d.bytes, a.slot)>>]

get_tpm_challenge_key(body, slot, act_ok, get_ok) ==
    LET p == parse_tpm_challenge(body) IN
    IF ~p.ok
    THEN [ok |-> FALSE, key |-> NoKey, error |-> p.error,
          slot |-> slot, evs |-> <<>>]
    ELSE LET d == base64_decode(p.key_str) IN
    IF ~d.ok
    THEN [ok |-> FALSE, key |-> NoKey, error |-> Err("Base64"),
          slot |-> slot, evs |-> <<>>]
    ELSE LET a == activate_identity_key(slot, d.bytes, act_ok) IN
    IF ~a.ok
    THEN [ok |-> FALSE, key |-> NoKey, error |-> Err("KeyStore"),
          slot |-> a.slot, evs |-> <<>>]
    ELSE LET g == key_store_get(a.slot, get_ok) IN
    IF ~g.ok
    THEN [ok |-> FALSE, key |-> NoKey, error |-> Err("KeyStore"),
          slot |-> a.slot, evs |-> <<Ev("activate", d.bytes, a.slot)>>]
    ELSE [ok |-> TRUE, key |-> g.key, error |-> NoError,
          slot |-> a.slot, evs |-> <<Ev("activate", d.bytes, a.slot)>>]

\* Client::new(service, None, ..): the client handed to DpsClient::new has
\* no token source
ClientAtConstruction == None

\* Client::with_token_source: the client, bound to the token source
with_token_source(c, token_source_key) == Some(token_source_key)

\* the key a request of client c is signed with, NoKey for an unsigned one
request_signer(c) == IF is_some(c) THEN unwrap(c) ELSE NoKey

\* mutant: the token source is bound to the shared client itself
get_operation_id_client_rebinds(c, k) == with_token_source(c, k)

\* the shared client after get_operation_id: the token source is bound to
\* a clone of it
get_operation_id_client(c, k) == c

\* the shared client after get_operation_status: likewise
get_operation_status_client(c, k) == c

\* the signed PUT: a copy of the client bound to a token source over `k`
get_operation_id(k, slot) == Ev("put_signed", k, slot)

\* mutant: an unchallenged success is reported as NotAssigned
unexpected_success_as_not_assigned == Failed(Err("NotAssigned"))

\* Ok(_): the service did not challenge
unexpected_success == Failed(Err("Unexpected"))

\* the continuation of the unsigned PUT
register_with_auth_then(resp, slot, act_ok, get_ok) ==
    LET seen == <<EvErr(observed_unsigned(resp), resp.err, slot)>> IN
    IF resp.ok
    THEN [pc |-> "done", primary |-> slot,
          outcome |-> unexpected_success, evs |-> seen]
    ELSE LET body == challenge_body(resp.err, resp.body) IN
    IF ~is_some(body)
    THEN [pc |-> "done", primary |-> slot,
          outcome |-> Failed(ErrFromHttp(resp.err)), evs |-> seen]
    ELSE LET c == get_tpm_challenge_key(unwrap(body), slot, act_ok, get_ok) IN
    IF ~c.ok
    THEN [pc |-> "done", primary |-> c.slot,
          outcome |-> Failed(c.error), evs |-> seen \o c.evs]
    ELSE [pc |-> "signed_put", primary |-> c.slot, outcome |-> Pending,
          evs |-> seen \o c.evs \o <<get_operation_id(c.key, c.slot)>>]

(***************************************************************************)
(* register: the continuation of the signed PUT                            *)
(***************************************************************************)
\* mutant: the budget without its extra tick
RetryCount_no_plus_one ==
    DPS_ASSIGNMENT_TIMEOUT_SECS \div DPS_ASSIGNMENT_RETRY_INTERVAL_SECS

RetryCount ==
    (DPS_ASSIGNMENT_TIMEOUT_SECS \div DPS_ASSIGNMENT_RETRY_INTERVAL_SECS) + 1

\* mutant: a failed signed PUT is taken for an empty answer and polled
signed_put_failed_polls(err, slot) ==
    [pc |-> "polling", outcome |-> Pending,
     key |-> slot, operation_id |-> "", retry_count |-> RetryCount,
     evs |-> <<EvErr("signed_err", err, slot)>>]

\* the signed PUT failed: its error is the error of register_with_auth, and
\* the and_then of register does not run
signed_put_failed(err, slot) ==
    [pc |-> "done", outcome |-> Failed(ErrFromHttp(err)),
     key |-> NoKey, operation_id |-> "", retry_count |-> 0,
     evs |-> <<EvErr("signed_err", err, slot)>>]

\* mutant: an answer without operation status is polled with an empty id
register_and_then_polls_without_status(resp, slot, get_ok) ==
    IF ~resp.ok
    THEN signed_put_failed(resp.err, slot)
    ELSE LET g == key_store_get(slot, get_ok)
             seen == <<Ev("signed_ok", NoKey, slot)>> IN
    IF ~g.ok
    THEN [pc |-> "done", outcome |-> Failed(Err("KeyStore")),
          key |-> NoKey, operation_id |-> "", retry_count |-> 0, evs |-> seen]
    ELSE [pc |-> "polling", outcome |-> Pending,
          key |-> g.key,
          operation_id |-> IF is_some(resp.status)
                           THEN unwrap(resp.status).operation_id ELSE "",
          retry_count |-> RetryCount, evs |-> seen]

\* mutant: the flow goes on to poll though the key store gave no key
register_and_then_ignores_key_store(resp, slot, get_ok) ==
    IF ~resp.ok
    THEN signed_put_failed(resp.err, slot)
    ELSE LET g == key_store_get(slot, get_ok)
             seen == <<Ev("signed_ok", NoKey, slot)>> IN
    IF ~is_some(resp.status)
    THEN [pc |-> "done", outcome |-> Failed(Err("NotAssigned")),
          key |-> NoKey, operation_id |-> "", retry_count |-> 0, evs |-> seen]
    ELSE [pc |-> "polling", outcome |-> Pending,
          key |-> g.key, operation_id |-> unwrap(resp.status).operation_id,
          retry_count |-> RetryCount, evs |-> seen]

register_and_then(resp, slot, get_ok) ==
    IF ~resp.ok
    THEN signed_put_failed(resp.err, slot)
    ELSE LET g == key_store_get(slot, get_ok)
             seen == <<Ev("signed_ok", NoKey, slot)>> IN
    IF ~g.ok
    THEN [pc |-> "done", outcome |-> Failed(Err("KeyStore")),
          key |-> NoKey, operation_id |-> "", retry_count |-> 0, evs |-> seen]
    ELSE IF ~is_some(resp.status)
    THEN [pc |-> "done", outcome |-> Failed(Err("NotAssigned")),
          key |-> NoKey, operation_id |-> "", retry_count |-> 0, evs |-> seen]
    ELSE [pc |-> "polling", outcome |-> Pending,
          key |-> g.key, operation_id |-> unwrap(resp.status).operation_id,
          retry_count |-> RetryCount, evs |-> seen]

(***************************************************************************)
(* The polling loop: get_device_registration_result                        *)
(***************************************************************************)
\* the map of get_operation_status: the registration state of the answer
get_operation_status_map(operation_status) ==
    IF is_some(operation_status)
    THEN unwrap(operation_status).registration_state
    ELSE None

\* mutant: the status is compared with its case
is_skippable_result_case_sensitive(registration_result) ==
    IF is_some(registration_result)
    THEN unwrap(registration_result).status = STR_assigning
    ELSE TRUE

is_skippable_result(registration_result) ==
    IF is_some(registration_result)
    THEN eq_ignore_ascii_case(unwrap(registration_result).status, STR_assigning)
    ELSE TRUE

\* mutant: one tick too many
take_new_plus_one(n) == n + 1

\* Interval.take(retry_count): the ticks the stream has left at the start
take_new(n) == n

\* mutant: a tick issues its probe while the previous probe is pending
and_then_not_sequenced(p) == p \in {"polling", "probe"}

\* and_then pulls the next tick only when no probe future is pending
and_then_idle(p) == p = "polling"

\* mutant: no take(1), the fold keeps the last result of the whole budget
poll_item_no_take(r, remaining) ==
    IF remaining = 0
    THEN [done |-> TRUE, result |-> IF is_skippable_result(r) THEN None ELSE r]
    ELSE [done |-> FALSE, result |-> None]

\* skip_while(is_skippable_result).take(1).fold on one probe result, with
\* `remaining` ticks left: the loop goes on, or ends with a result
poll_item(r, remaining) ==
    IF is_skippable_result(r)
    THEN IF remaining = 0
         THEN [done |-> TRUE, result |-> None]
         ELSE [done |-> FALSE, result |-> None]
    ELSE [done |-> TRUE, result |-> r]

\* mutant: a failed probe is skipped like a pending one
poll_error_skipped(e, remaining) ==
    [done |-> remaining = 0, error |-> ErrFromHttp(e)]

\* an error of the probe future ends the stream and the fold
poll_error(e, remaining) == [done |-> TRUE, error |-> ErrFromHttp(e)]

\* mutant: a failed tick is passed over and the next tick awaited
interval_error_skipped(remaining) ==
    [done |-> remaining = 0, error |-> Err("TimerError")]

\* an error of the Interval is mapped to TimerError and ends the stream and
\* the fold, whatever is left of the budget
interval_error(remaining) == [done |-> TRUE, error |-> Err("TimerError")]

(***************************************************************************)
(* register: the continuation of the polling loop                          *)
(***************************************************************************)
\* mutant: a missing hub is returned as the empty string
get_device_info_default_hub(registration_result) ==
    IF ~is_some(registration_result.device_id)
    THEN [ok |-> FALSE, pair |-> <<>>, error |-> Err("NotAssigned")]
    ELSE [ok |-> TRUE,
          pair |-> <<unwrap(registration_result.device_id),
                     IF is_some(registration_result.assigned_hub)
                     THEN unwrap(registration_result.assigned_hub) ELSE "">>,
          error |-> NoError]

\* mutant: the pair is built the wrong way round
get_device_info_swapped(registration_result) ==
    IF ~is_some(registration_result.device_id)
    THEN [ok |-> FALSE, pair |-> <<>>, error |-> Err("NotAssigned")]
    ELSE IF ~is_some(registration_result.assigned_hub)
    THEN [ok |-> FALSE, pair |-> <<>>, error |-> Err("NotAssigned")]
    ELSE [ok |-> TRUE,
          pair |-> <<unwrap(registration_result.assigned_hub),
                     unwrap(registration_result.device_id)>>,
          error |-> NoError]

get_device_info(registration_result) ==
    IF ~is_some(registration_result.device_id)
    THEN [ok |-> FALSE, pair |-> <<>>, error |-> Err("NotAssigned")]
    ELSE IF ~is_some(registration_result.assigned_hub)
    THEN [ok |-> FALSE, pair |-> <<>>, error |-> Err("NotAssigned")]
    ELSE [ok |-> TRUE,
          pair |-> <<unwrap(registration_result.device_id),
                     unwrap(registration_result.assigned_hub)>>,
          error |-> NoError]

\* mutant: the pair is returned without the final key being activated
register_result_no_activate(operation_status, slot, act_ok) ==
    IF ~is_some(operation_status)
    THEN [outcome |-> Failed(Err("NotAssigned")), primary |-> slot, evs |-> <<>>]
    ELSE LET s == unwrap(operation_status)
             info == get_device_info(s) IN
    IF ~is_some(s.tpm)
    THEN [outcome |-> Failed(Err("NotAssigned")), primary |-> slot, evs |-> <<>>]
    ELSE IF ~is_some(unwrap(s.tpm).authentication_key)
    THEN [outcome |-> Failed(Err("NotAssigned")), primary |-> slot, evs |-> <<>>]
    ELSE IF ~info.ok
    THEN [outcome |-> Failed(info.error), primary |-> slot, evs |-> <<>>]
    ELSE [outcome |-> OkPair(info.pair), primary |-> slot, evs |-> <<>>]

\* mutant: a result without a final key is accepted as it is
register_result_key_optional(operation_status, slot, act_ok) ==
    IF ~is_some(operation_status)
    THEN [outcome |-> Failed(Err("NotAssigned")), primary |-> slot, evs |-> <<>>]
    ELSE LET s == unwrap(operation_status)
             info == get_device_info(s)
             done == IF info.ok THEN OkPair(info.pair) ELSE Failed(info.error) IN
    IF ~is_some(s.tpm)
    THEN [outcome |-> done, primary |-> slot, evs |-> <<>>]
    ELSE IF ~is_some(unwrap(s.tpm).authentication_key)
    THEN [outcome |-> done, primary |-> slot, evs |-> <<>>]
    ELSE LET d == base64_decode(unwrap(unwrap(s.tpm).authentication_key)) IN
    IF ~d.ok
    THEN [outcome |-> Failed(Err("Base64")), primary |-> slot, evs |-> <<>>]
    ELSE LET a == activate_identity_key(slot, d.bytes, act_ok) IN
    IF ~a.ok
    THEN [outcome |-> Failed(Err("KeyStore")), primary |-> a.slot, evs |-> <<>>]
    ELSE [outcome |-> done, primary |-> a.slot,
          evs |-> <<Ev("activate", d.bytes, a.slot)>>]

\* mutant: deviceId and assignedHub are looked at before the key is activated
register_result_info_first(operation_status, slot, act_ok) ==
    IF ~is_some(operation_status)
    THEN [outcome |-> Failed(Err("NotAssigned")), primary |-> slot, evs |-> <<>>]
    ELSE LET s == unwrap(operation_status) IN
    IF ~is_some(s.tpm)
    THEN [outcome |-> Failed(Err("NotAssigned")), primary |-> slot, evs |-> <<>>]
    ELSE IF ~is_some(unwrap(s.tpm).authentication_key)
    THEN [outcome |-> Failed(Err("NotAssigned")), primary |-> slot, evs |-> <<>>]
    ELSE LET d == base64_decode(unwrap(unwrap(s.tpm).authentication_key)) IN
    IF ~d.ok
    THEN [outcome |-> Failed(Err("Base64")), primary |-> slot, evs |-> <<>>]
    ELSE LET info == get_device_info(s) IN
    IF ~info.ok
    THEN [outcome |-> Failed(info.error), primary |-> slot, evs |-> <<>>]
    ELSE LET a == activate_identity_key(slot, d.bytes, act_ok) IN
    IF ~a.ok
    THEN [outcome |-> Failed(Err("KeyStore")), primary |-> a.slot, evs |-> <<>>]
    ELSE [outcome |-> OkPair(info.pair), primary |-> a.slot,
          evs |-> <<Ev("activate", d.bytes, a.slot)>>]

\* mutant: a flow that ends without a final key clears the slot
register_result_clears_slot(operation_status, slot, act_ok) ==
    IF ~is_some(operation_status)
    THEN [outcome |-> Failed(Err("NotAssigned")), primary |-> NoKey, evs |-> <<>>]
    ELSE LET s == unwrap(operation_status) IN
    IF ~is_some(s.tpm)
    THEN [outcome |-> Failed(Err("NotAssigned")), primary |-> NoKey, evs |-> <<>>]
    ELSE IF ~is_some(unwrap(s.tpm).authentication_key)
    THEN [outcome |-> Failed(Err("NotAssigned")), primary |-> NoKey, evs |-> <<>>]
    ELSE LET d == base64_decode(unwrap(unwrap(s.tpm).authentication_key)) IN
    IF ~d.ok
    THEN [outcome |-> Failed(Err("Base64")), primary |-> slot, evs |-> <<>>]
    ELSE LET a == activate_identity_key(slot, d.bytes, act_ok) IN
    IF ~a.ok
    THEN [outcome |-> Failed(Err("KeyStore")), primary |-> a.slot, evs |-> <<>>]
    ELSE LET info == get_device_info(s)
             act == <<Ev("activate", d.bytes, a.slot)>> IN
    IF ~info.ok
    THEN [outcome |-> Failed(info.error), primary |-> a.slot, evs |-> act]
    ELSE [outcome |-> OkPair(info.pair), primary |-> a.slot, evs |-> act]

register_result(operation_status, slot, act_ok) ==
    IF ~is_some(operation_status)
    THEN [outcome |-> Failed(Err("NotAssigned")), primary |-> slot, evs |-> <<>>]
    ELSE LET s == unwrap(operation_status) IN
    IF ~is_some(s.tpm)
    THEN [outcome |-> Failed(Err("NotAssigned")), primary |-> slot, evs |-> <<>>]
    ELSE IF ~is_some(unwrap(s.tpm).authentication_key)
    THEN [outcome |-> Failed(Err("NotAssigned")), primary |-> slot, evs |-> <<>>]
    ELSE LET d == base64_decode(unwrap(unwrap(s.tpm).authentication_key)) IN
    IF ~d.ok
    THEN [outcome |-> Failed(Err("Base64")), primary |-> slot, evs |-> <<>>]
    ELSE LET a == activate_identity_key(slot, d.bytes, act_ok) IN
    IF ~a.ok
    THEN [outcome |-> Failed(Err("KeyStore")), primary |-> a.slot, evs |-> <<>>]
    ELSE LET info == get_device_info(s)
             act == <<Ev("activate", d.bytes, a.slot)>> IN
    IF ~info.ok
    THEN [outcome |-> Failed(info.error), primary |-> a.slot, evs |-> act]
    ELSE [outcome |-> OkPair(info.pair), primary |-> a.slot, evs |-> act]

\* what the future of the flow resolves to once the polling loop has ended
flow_result(e, poll_result, slot, act_ok) ==
    IF e = "poll"
    THEN [outcome |-> OkResult(poll_result), primary |-> slot, evs |-> <<>>]
    ELSE register_result(poll_result, slot, act_ok)

\* ... and when the polling loop has failed
flow_error(e, err) == Failed(err)

(***************************************************************************)
(* What the service answered to a status probe, as the flow observes it    *)
(***************************************************************************)
AssigningSpellings == {STR_assigning, STR_ASSIGNING, STR_Assigning}

observed_probe(resp) ==
    IF ~resp.ok THEN "probe_err"
    ELSE IF ~is_some(resp.status) THEN "probe_pending"
    ELSE IF ~is_some(unwrap(resp.status).registration_state) THEN "probe_pending"
    ELSE IF unwrap(unwrap(resp.status).registration_state).status
              \in AssigningSpellings
         THEN "probe_pending"
         ELSE "probe_terminal"

(***************************************************************************)
(* DpsTokenSource: the shared access signature a request is signed with    *)
(***************************************************************************)
STR_scope == <<"s", "c", "o", "p", "e">>

STR_Scope == <<"S", "c", "o", "p", "e">>

STR_reg == <<"r", "e", "g">>

STR_REG == <<"R", "E", "G">>

STR_r_eq_g == <<"r", "=", "g">>

STR_registrations ==
    <<"r", "e", "g", "i", "s", "t", "r", "a", "t", "i", "o", "n", "s">>

STR_registration ==
    <<"r", "e", "g", "i", "s", "t", "r", "a", "t", "i", "o", "n">>

ScopeIds == {STR_scope, STR_Scope}

RegistrationIds == {STR_reg, STR_REG, STR_r_eq_g}

\* expiry.timestamp(): seconds
Expiries == {9, 10}

Digits == <<"0", "1", "2", "3", "4", "5", "6", "7", "8", "9">>

\* u64/i64 to_string: the decimal digits of n
RECURSIVE to_string(_)
to_string(n) ==
    IF n < 10 THEN <<Digits[n + 1]>>
    ELSE to_string(n \div 10) \o <<Digits[(n % 10) + 1]>>

\* str::to_lowercase, on ASCII text
to_lowercase(s) == [i \in 1..Len(s) |-> to_ascii_lowercase(s[i])]

\* percent_encoding's PATH_SEGMENT_ENCODE_SET, its printable ASCII characters
\* but the grave accent
PATH_SEGMENT_ENCODE_SET ==
    {" ", "\"", "#", "<", ">", "?", "{", "}", "%", "/"}

IOTHUB_ENCODE_SET == PATH_SEGMENT_ENCODE_SET \cup {"="}

\* %XX of a character of the encode set
percent_code(c) ==
    CASE c = " "  -> <<"%", "2", "0">>
      [] c = "\"" -> <<"%", "2", "2">>
      [] c = "#"  -> <<"%", "2", "3">>
      [] c = "%"  -> <<"%", "2", "5">>
      [] c = "/"  -> <<"%", "2", "F">>
      [] c = "<"  -> <<"%", "3", "C">>
      [] c = "="  -> <<"%", "3", "D">>
      [] c = ">"  -> <<"%", "3", "E">>
      [] c = "?"  -> <<"%", "3", "F">>
      [] c = "{"  -> <<"%", "7", "B">>
      [] c = "}"  -> <<"%", "7", "D">>

RECURSIVE percent_encode(_, _)
percent_encode(s, encode_set) ==
    IF s = <<>> THEN <<>>
    ELSE (IF Head(s) \in encode_set THEN percent_code(Head(s)) ELSE <<Head(s)>>)
         \o percent_encode(Tail(s), encode_set)

\* Sign::sign (edgelet_core::crypto): a signature of the data under the key,
\* or a failure
sign(k, signature_algorithm, data, succeeds) ==
    IF succeeds
    THEN [ok |-> TRUE,
          signature |-> [alg |-> signature_algorithm, key |-> k, data |-> data]]
    ELSE [ok |-> FALSE, signature |-> <<>>]

\* base64::encode of the signature's bytes
base64_encode(bytes) == [base64 |-> bytes]

\* Error::from of the error of sign
ErrFromSign == Err("Sign")

DpsTokenSource_new(scope_id, registration_id, k) ==
    [scope_id |-> scope_id, registration_id |-> registration_id, key |-> k]

\* mutant: the audience is encoded as it is written
DpsTokenSource_get_case_sensitive(self, expiry, sign_ok) ==
    LET expiry_str == to_string(expiry)
        audience == self.scope_id \o <<"/">> \o STR_registrations \o <<"/">>
                    \o self.registration_id
        resource_uri == percent_encode(audience, IOTHUB_ENCODE_SET)
        sig_data == resource_uri \o <<"\n">> \o expiry_str
        signed == sign(self.key, "HMACSHA256", sig_data, sign_ok)
    IN  IF ~signed.ok
        THEN [ok |-> FALSE, token |-> None, error |-> ErrFromSign]
        ELSE [ok |-> TRUE,
              token |-> Some([sr |-> resource_uri,
                              sig |-> base64_encode(signed.signature),
                              se |-> expiry_str,
                              skn |-> STR_registration]),
              error |-> NoError]

\* TokenSource::get: the token is the query string of the pairs sr, sig, se
\* and skn, in this order
DpsTokenSource_get(self, expiry, sign_ok) ==
    LET expiry_str == to_string(expiry)
        audience == self.scope_id \o <<"/">> \o STR_registrations \o <<"/">>
                    \o self.registration_id
        resource_uri == percent_encode(to_lowercase(audience), IOTHUB_ENCODE_SET)
        sig_data == resource_uri \o <<"\n">> \o expiry_str
        signed == sign(self.key, "HMACSHA256", sig_data, sign_ok)
    IN  IF ~signed.ok
        THEN [ok |-> FALSE, token |-> None, error |-> ErrFromSign]
        ELSE [ok |-> TRUE,
              token |-> Some([sr |-> resource_uri,
                              sig |-> base64_encode(signed.signature),
                              se |-> expiry_str,
                              skn |-> STR_registration]),
              error |-> NoError]

(***************************************************************************)
(* The shared client handle, Arc<RwLock<Client>>: each request is started  *)
(* under the lock, taken by the statement that starts it and given back    *)
(* at the end of that statement                                            *)
(***************************************************************************)
Flows == 1..MaxFlows

\* register_with_auth: client.read()
register_with_auth_lock == "read"

\* mutant: the signed PUT takes the handle as a reader
get_operation_id_lock_read == "read"

\* get_operation_id: client.write()
get_operation_id_lock == "write"

\* get_operation_status: client.read()
get_operation_status_lock == "read"

\* how the statement that starts a request takes the handle
request_lock(request) ==
    CASE request = "put_unsigned" -> register_with_auth_lock
      [] request = "put_signed"   -> get_operation_id_lock
      [] request = "get"          -> get_operation_status_lock

\* std::sync::RwLock: any number of readers or one writer
RwLockFree == [readers |-> {}, writer |-> None]

rwlock_can_lock(lock, mode) ==
    IF mode = "write"
    THEN lock.readers = {} /\ lock.writer = None
    ELSE lock.writer = None

rwlock_lock(lock, f, mode) ==
    IF mode = "write"
    THEN [lock EXCEPT !.writer = Some(f)]
    ELSE [lock EXCEPT !.readers = @ \cup {f}]

\* the guard is dropped
rwlock_unlock(lock, f) ==
    [readers |-> lock.readers \ {f},
     writer |-> IF lock.writer = Some(f) THEN None ELSE lock.writer]

\* mutant: the guard stays with the request until it is answered
request_statement_end_keeps_guard(lock, f) == lock

\* the statement that started the request ends: its temporaries, the guard
\* among them, are dropped
request_statement_end(lock, f) == rwlock_unlock(lock, f)

FlowIdle == [pc |-> "idle", request |-> "none"]

(***************************************************************************)
(* Initial state: a DpsClient over the key store its caller hands it (the  *)
(* slot empty, or holding a key of an earlier provisioning), no flow yet   *)
(***************************************************************************)
Init ==
    /\ pc = "idle"
    /\ entry = "none"
    /\ primary \in {NoKey} \cup KeyBytes
    /\ primary0 = primary
    /\ key = NoKey
    /\ operation_id = ""
    /\ retry_count = 0
    /\ take_remaining = 0
    /\ inflight = 0
    /\ final_result = None
    /\ outcome = Pending
    /\ events = <<>>
    /\ challenge = None
    /\ probed = None
    /\ signed_status = None
    /\ key_store_env = KeyStoreServes("none", TRUE, TRUE)
    /\ client = ClientAtConstruction
    /\ token_source = None
    /\ token_call = None
    /\ token_prev = None
    /\ rwlock = RwLockFree
    /\ flows = [f \in Flows |-> FlowIdle]

(***************************************************************************)
(* Actions                                                                 *)
(***************************************************************************)
\* register(): the unsigned PUT is issued
Register ==
    /\ pc = "idle"
    /\ pc' = "unsigned_put"
    /\ entry' = "register"
    /\ primary0' = primary
    /\ events' = <<Ev("put_unsigned", request_signer(client), primary)>>
    /\ UNCHANGED <<primary, key, operation_id, retry_count, take_remaining,
                   inflight, final_result, outcome, challenge, probed>>
    /\ UNCHANGED <<token_vars, lock_vars>>
    /\ UNCHANGED <<signed_status, key_store_env>>
    /\ UNCHANGED client

\* the unsigned PUT resolves
UnsignedResponse(resp, act_ok, get_ok) ==
    /\ pc = "unsigned_put"
    /\ LET r == register_with_auth_then(resp, primary, act_ok, get_ok) IN
        /\ pc' = r.pc
        /\ primary' = r.primary
        /\ outcome' = r.outcome
        /\ events' = events \o r.evs
    /\ challenge' = IF observed_unsigned(resp) = "unsigned_401"
                    THEN Some(resp.body) ELSE None
    /\ UNCHANGED <<entry, primary0, key, operation_id, retry_count,
                   take_remaining, inflight, final_result, probed>>
    /\ UNCHANGED <<token_vars, lock_vars>>
    /\ key_store_env' = KeyStoreServes("unsigned", act_ok, get_ok)
    /\ UNCHANGED signed_status
    /\ client' =
          LET r == register_with_auth_then(resp, primary, act_ok, get_ok) IN
          IF r.pc = "signed_put"
          THEN get_operation_id_client(client, r.evs[Len(r.evs)].key)
          ELSE client

\* the signed PUT resolves
SignedResponse(resp, get_ok) ==
    /\ pc = "signed_put"
    /\ LET r == register_and_then(resp, primary, get_ok) IN
        /\ pc' = r.pc
        /\ outcome' = r.outcome
        /\ key' = r.key
        /\ operation_id' = r.operation_id
        /\ retry_count' = r.retry_count
        /\ take_remaining' = take_new(r.retry_count)
        /\ events' = events \o r.evs
    /\ UNCHANGED <<entry, primary, primary0, inflight, final_result,
                   challenge, probed>>
    /\ UNCHANGED <<token_vars, lock_vars>>
    /\ signed_status' = IF resp.ok THEN Some(resp.status) ELSE None
    /\ key_store_env' = KeyStoreServes("signed", TRUE, get_ok)
    /\ UNCHANGED client

\* get_device_registration_result called on its own, with a budget of n ticks
GetDeviceRegistrationResult(n, k, op) ==
    /\ pc = "idle"
    /\ entry' = "poll"
    /\ primary0' = primary
    /\ key' = k
    /\ operation_id' = op
    /\ retry_count' = n
    /\ take_remaining' = take_new(n)
    /\ IF take_new(n) = 0
       THEN /\ pc' = "done"
            /\ outcome' = OkResult(None)
       ELSE /\ pc' = "polling"
            /\ outcome' = outcome
    /\ UNCHANGED <<primary, inflight, final_result, events, challenge, probed>>
    /\ UNCHANGED <<token_vars, lock_vars>>
    /\ UNCHANGED <<signed_status, key_store_env>>
    /\ UNCHANGED client

\* the interval ticks: the probe of this tick is issued
TimerTick ==
    /\ and_then_idle(pc)
    /\ take_remaining > 0
    /\ pc' = "probe"
    /\ take_remaining' = take_remaining - 1
    /\ inflight' = inflight + 1
    /\ events' = Append(events, Ev("get", key, primary))
    /\ UNCHANGED <<entry, primary, primary0, key, operation_id, retry_count,
                   final_result, outcome, challenge, probed>>
    /\ UNCHANGED <<token_vars, lock_vars>>
    /\ UNCHANGED <<signed_status, key_store_env>>
    /\ client' = get_operation_status_client(client, key)

\* the interval fails
TimerFail ==
    /\ and_then_idle(pc)
    /\ take_remaining > 0
    /\ LET e == interval_error(take_remaining) IN
        /\ pc' = IF e.done THEN "done" ELSE "polling"
        /\ outcome' = IF e.done THEN flow_error(entry, e.error) ELSE outcome
    /\ events' = Append(events, Ev("timer_err", NoKey, primary))
    /\ UNCHANGED <<entry, primary, primary0, key, operation_id, retry_count,
                   take_remaining, inflight, final_result, challenge, probed>>
    /\ UNCHANGED <<token_vars, lock_vars>>
    /\ UNCHANGED <<signed_status, key_store_env>>
    /\ UNCHANGED client

\* the probe in flight resolves
ProbeResponse(resp, act_ok) ==
    /\ pc = "probe"
    /\ inflight' = inflight - 1
    /\ LET seen == <<EvErr(observed_probe(resp), resp.err, primary)>>
           r == get_operation_status_map(resp.status)
       IN
        /\ final_result' =
              IF observed_probe(resp) = "probe_terminal" /\ final_result = None
              THEN Some(unwrap(r)) ELSE final_result
        /\ IF ~resp.ok
           THEN LET e == poll_error(resp.err, take_remaining) IN
                /\ pc' = IF e.done THEN "done" ELSE "polling"
                /\ outcome' = IF e.done THEN flow_error(entry, e.error) ELSE outcome
                /\ events' = events \o seen
                /\ UNCHANGED primary
           ELSE LET item == poll_item(r, take_remaining) IN
                IF ~item.done
                THEN /\ pc' = "polling"
                     /\ events' = events \o seen
                     /\ UNCHANGED <<outcome, primary>>
                ELSE LET f == flow_result(entry, item.result, primary, act_ok) IN
                     /\ pc' = "done"
                     /\ outcome' = f.outcome
                     /\ primary' = f.primary
                     /\ events' = events \o seen \o f.evs
    /\ probed' =
          IF resp.ok
          THEN LET r == get_operation_status_map(resp.status) IN
               Some([status |-> IF is_some(r) THEN Some(unwrap(r).status) ELSE None,
                     skippable |-> is_skippable_result(r)])
          ELSE probed
    /\ UNCHANGED <<entry, primary0, key, operation_id, retry_count,
                   take_remaining, challenge>>
    /\ UNCHANGED <<token_vars, lock_vars>>
    /\ key_store_env' =
          IF observed_probe(resp) = "probe_terminal"
          THEN KeyStoreServes("probe", act_ok, TRUE) ELSE key_store_env
    /\ UNCHANGED signed_status
    /\ UNCHANGED client

\* the caller drops the future of the flow before it has resolved
Drop ==
    /\ pc \in {"unsigned_put", "signed_put", "polling", "probe"}
    /\ pc' = "done"
    /\ outcome' = Cancelled
    /\ inflight' = 0
    /\ events' = Append(events, Ev("dropped", NoKey, primary))
    /\ UNCHANGED <<entry, primary, primary0, key, operation_id, retry_count,
                   take_remaining, final_result, challenge, probed>>
    /\ UNCHANGED <<token_vars, lock_vars>>
    /\ UNCHANGED <<signed_status, key_store_env>>
    /\ UNCHANGED client

\* the flow is over; the DpsClient and its key store are there for the next
Restart ==
    /\ pc = "done"
    /\ pc' = "idle"
    /\ entry' = "none"
    /\ primary0' = primary
    /\ key' = NoKey
    /\ operation_id' = ""
    /\ retry_count' = 0
    /\ take_remaining' = 0
    /\ inflight' = 0
    /\ final_result' = None
    /\ outcome' = Pending
    /\ events' = <<>>
    /\ challenge' = None
    /\ probed' = None
    /\ signed_status' = None
    /\ key_store_env' = KeyStoreServes("none", TRUE, TRUE)
    /\ UNCHANGED primary
    /\ UNCHANGED <<token_vars, lock_vars>>
    /\ UNCHANGED client

Next ==
    \/ Register
    \/ \E resp \in UnsignedResponses, act_ok \in BOOLEAN, get_ok \in BOOLEAN :
          UnsignedResponse(resp, act_ok, get_ok)
    \/ \E resp \in SignedResponses, get_ok \in BOOLEAN :
          SignedResponse(resp, get_ok)
    \/ \E n \in 0..MaxRetryCount, k \in KeyBytes, op \in OperationIds :
          GetDeviceRegistrationResult(n, k, op)
    \/ TimerTick
    \/ TimerFail
    \/ \E resp \in ProbeResponses, act_ok \in BOOLEAN :
          ProbeResponse(resp, act_ok)
    \/ Drop
    \/ Restart

Spec == Init /\ [][Next]_vars

(***************************************************************************)
(* A flow whose caller keeps the future, with a transport that answers     *)
(* every request and a timer that goes on: each request in flight is       *)
(* resolved and each awaited tick comes, or the timer fails                *)
(***************************************************************************)
UnsignedAnswered ==
    \E resp \in UnsignedResponses, act_ok \in BOOLEAN, get_ok \in BOOLEAN :
        UnsignedResponse(resp, act_ok, get_ok)

SignedAnswered ==
    \E resp \in SignedResponses, get_ok \in BOOLEAN : SignedResponse(resp, get_ok)

ProbeAnswered ==
    \E resp \in ProbeResponses, act_ok \in BOOLEAN : ProbeResponse(resp, act_ok)

TimerGoesOn == TimerTick \/ TimerFail

LiveNext ==
    \/ Register
    \/ UnsignedAnswered
    \/ SignedAnswered
    \/ TimerGoesOn
    \/ ProbeAnswered

\* a device that is provisioned for the first time: no key in the slot
LiveInit == Init /\ primary = NoKey

LiveSpec ==
    /\ LiveInit
    /\ [][LiveNext]_vars
    /\ WF_vars(UnsignedAnswered)
    /\ WF_vars(SignedAnswered)
    /\ WF_vars(ProbeAnswered)
    /\ WF_vars(TimerGoesOn)

(***************************************************************************)
(* Token sources on their own: made for any identity and key, and asked    *)
(* for tokens                                                              *)
(***************************************************************************)
NewTokenSource(scope_id, registration_id, k) ==
    /\ token_source' = Some(DpsTokenSource_new(scope_id, registration_id, k))
    /\ UNCHANGED <<flow_vars, token_call, token_prev, lock_vars>>

GetToken(expiry, sign_ok) ==
    /\ is_some(token_source)
    /\ token_prev' = token_call
    /\ token_call' =
          Some([self |-> unwrap(token_source), expiry |-> expiry,
                sign_ok |-> sign_ok,
                result |-> DpsTokenSource_get(unwrap(token_source), expiry,
                                              sign_ok)])
    /\ UNCHANGED <<flow_vars, token_source, lock_vars>>

TokenNext ==
    \/ \E scope_id \in ScopeIds, registration_id \in RegistrationIds,
          k \in KeyBytes :
          NewTokenSource(scope_id, registration_id, k)
    \/ \E expiry \in Expiries, sign_ok \in BOOLEAN : GetToken(expiry, sign_ok)

TokenSpec == Init /\ [][TokenNext]_vars

(***************************************************************************)
(* Concurrent flows on one DpsClient, as the shared client handle sees     *)
(* them: each flow is the sequence of the requests it starts               *)
(***************************************************************************)
\* register() is called: the flow comes to client.read() of the unsigned PUT
FlowRegister(f) ==
    /\ flows[f].pc = "idle"
    /\ flows' = [flows EXCEPT ![f] = [pc |-> "wait", request |-> "put_unsigned"]]
    /\ UNCHANGED <<flow_vars, token_vars, rwlock>>

\* read() or write() returns the guard
FlowLock(f) ==
    /\ flows[f].pc = "wait"
    /\ rwlock_can_lock(rwlock, request_lock(flows[f].request))
    /\ rwlock' = rwlock_lock(rwlock, f, request_lock(flows[f].request))
    /\ flows' = [flows EXCEPT ![f].pc = "held"]
    /\ UNCHANGED <<flow_vars, token_vars>>

\* the request is started and the statement ends: the guard is dropped and
\* the flow awaits the response
FlowRequest(f) ==
    /\ flows[f].pc = "held"
    /\ rwlock' = request_statement_end(rwlock, f)
    /\ flows' = [flows EXCEPT ![f].pc = "sent"]
    /\ UNCHANGED <<flow_vars, token_vars>>

\* the response arrives: the flow ends, or goes on to its next request (the
\* signed PUT after the challenge, the polling loop after the signed PUT and
\* after a skippable poll result)
FlowResponse(f, goes_on) ==
    /\ flows[f].pc = "sent"
    /\ flows' = [flows EXCEPT ![f] =
          IF ~goes_on THEN FlowIdle
          ELSE IF flows[f].request = "put_unsigned"
               THEN [pc |-> "wait", request |-> "put_signed"]
               ELSE [pc |-> "polling", request |-> "none"]]
    /\ UNCHANGED <<flow_vars, token_vars, rwlock>>

\* the interval ticks and the flow comes to client.read() of the status GET,
\* or the budget is used up, or the timer fails
FlowTick(f, goes_on) ==
    /\ flows[f].pc = "polling"
    /\ flows' = [flows EXCEPT ![f] =
          IF goes_on THEN [pc |-> "wait", request |-> "get"] ELSE FlowIdle]
    /\ UNCHANGED <<flow_vars, token_vars, rwlock>>

LockNext ==
    \/ \E f \in Flows : FlowRegister(f)
    \/ \E f \in Flows : FlowLock(f)
    \/ \E f \in Flows : FlowRequest(f)
    \/ \E f \in Flows, goes_on \in BOOLEAN : FlowResponse(f, goes_on)
    \/ \E f \in Flows, goes_on \in BOOLEAN : FlowTick(f, goes_on)

LockSpec == Init /\ [][LockNext]_vars

(***************************************************************************)
(* Properties                                                              *)
(***************************************************************************)
\* the positions of `events` where e happened
At(e) == {i \in DOMAIN events : events[i].ev = e}

Happened(e) == At(e) # {}

Probes == At("get")

\* the flow has resolved (it was not dropped by its caller)
Returned == pc = "done" /\ outcome.tag \in {"ok", "err"}

\* the first non-skippable poll result of the flow
Terminal == unwrap(final_result)

HasFinalKey(r) == is_some(r.tpm) /\ is_some(unwrap(r.tpm).authentication_key)

FinalKeyString(r) == unwrap(unwrap(r.tpm).authentication_key)

\* the case of C1: 401 challenge with a decodable key, signed PUT answered
\* with an operation status, first non-skippable result complete
C1_Case ==
    /\ entry = "register"
    /\ Returned
    /\ Happened("unsigned_401")
    /\ Happened("put_signed")
    /\ Happened("signed_ok")
    /\ is_some(final_result)
    /\ HasFinalKey(Terminal)
    /\ is_some(Terminal.device_id)
    /\ is_some(Terminal.assigned_hub)

C1_Pair == <<unwrap(Terminal.device_id), unwrap(Terminal.assigned_hub)>>

\* C1 as stated: in the case of C1, register() returns exactly the
\* (deviceId, assignedHub) of the first non-skippable result.
C1_AsStated == C1_Case => outcome = OkPair(C1_Pair)

\* C1, amended: in the case of C1, and when the final authenticationKey is
\* base64-decodable, register() returns exactly the (deviceId, assignedHub) of
\* the first non-skippable result, unless the key store refuses to activate
\* the final key: then it fails with KeyStore and the slot is left as it was.
C1_ReturnsDeviceAndHub ==
    (C1_Case /\ base64_decode(FinalKeyString(Terminal)).ok) =>
        \/ outcome = OkPair(C1_Pair)
        \/ /\ outcome = Failed(Err("KeyStore"))
           /\ primary = events[Len(events)].slot
           /\ events[Len(events)].ev = "probe_terminal"

\* a flow that returned a pair after at least one skipped probe
C1_Witness ==
    /\ C1_Case
    /\ outcome.tag = "ok"
    /\ Cardinality(Probes) >= 2
    /\ C1_Pair = <<"device2", "hub">>

\* C2: in a register() flow the signed PUT is issued only after the 401 of
\* the unsigned PUT has been observed and the challenge key activated, and a
\* status poll is issued only after the success of the signed PUT has been
\* observed.
C2_Ordering ==
    entry = "register" =>
        /\ \A i \in At("put_signed") :
              \E j \in At("activate") : \E h \in At("unsigned_401") :
                 h < j /\ j < i
        /\ \A i \in Probes : \E j \in At("signed_ok") :
              j < i /\ \E h \in At("put_signed") : h < j

\* a register() flow that has issued a status poll
C2_Witness ==
    /\ entry = "register"
    /\ Probes # {}
    /\ Happened("put_signed")

\* C3: every signed request of a register() flow (the signed PUT, each
\* status poll) is signed with the key the 'primary' slot holds when the
\* request is issued, which is the key of the latest activation.
C3_SignedWithCurrentKey ==
    entry = "register" =>
        \A i \in At("put_signed") \cup Probes :
            /\ events[i].key # NoKey
            /\ events[i].key = events[i].slot
            /\ \E j \in At("activate") :
                  /\ j < i
                  /\ events[j].key = events[i].key
                  /\ \A h \in At("activate") : h < i => h <= j

\* a poll signed with a challenge key that replaced an older key in the slot
C3_Witness ==
    /\ entry = "register"
    /\ primary0 # NoKey
    /\ \E i \in Probes : events[i].key # primary0

\* C4: when register() returns (deviceId, assignedHub), the key of the
\* terminal result's tpm.authenticationKey has been activated after that
\* result was received, and the 'primary' slot holds it.
C4_FinalKeyActivatedBeforeReturn ==
    (entry = "register" /\ outcome.tag = "ok") =>
        /\ is_some(final_result)
        /\ HasFinalKey(Terminal)
        /\ primary = base64_decode(FinalKeyString(Terminal)).bytes
        /\ \E i \in At("activate") : \E j \in At("probe_terminal") :
              /\ j < i
              /\ i = Len(events)
              /\ events[i].key = primary

\* a successful flow whose final key differs from its challenge key
C4_Witness ==
    /\ entry = "register"
    /\ outcome.tag = "ok"
    /\ \E i \in At("put_signed") : events[i].key # primary

\* C5: once a probe has returned a non-skippable result the polling loop is
\* over: no later probe is issued, whatever is left of the tick budget, and
\* the loop's result is that result.
C5_EarlyTermination ==
    is_some(final_result) =>
        /\ pc = "done"
        /\ \A i \in At("probe_terminal") : \A j \in Probes : j < i
        /\ Cardinality(At("probe_terminal")) = 1
        /\ entry = "poll" => outcome = OkResult(final_result)

\* the loop ended by a non-skippable result with ticks left
C5_Witness ==
    /\ entry = "poll"
    /\ is_some(final_result)
    /\ take_remaining > 0
    /\ Cardinality(Probes) >= 2

\* C6: the polling loop issues at most retry_count probes; when every one
\* of its retry_count probes has returned a skippable result the loop is
\* over with the result 'none', and a loop that ends with 'none' has issued
\* exactly retry_count probes.
C6_BoundedPolling ==
    /\ Cardinality(Probes) <= retry_count
    /\ (retry_count > 0 /\ Cardinality(At("probe_pending")) = retry_count) =>
          /\ pc = "done"
          /\ entry = "poll" => outcome = OkResult(None)
          /\ entry = "register" => outcome = Failed(Err("NotAssigned"))
    /\ (entry = "poll" /\ pc = "done" /\ outcome = OkResult(None)) =>
          /\ Cardinality(Probes) = retry_count
          /\ Cardinality(At("probe_pending")) = retry_count

\* a loop that used up a budget of two or more ticks
C6_Witness ==
    /\ entry = "poll"
    /\ pc = "done"
    /\ outcome = OkResult(None)
    /\ retry_count >= 2
    /\ Cardinality(At("probe_pending")) = retry_count

ProbeResolved == At("probe_pending") \cup At("probe_terminal") \cup At("probe_err")

\* C7: at most one status probe is in flight, and between two probes of a
\* flow the earlier one has resolved.
C7_OneProbeInFlight ==
    /\ inflight \in {0, 1}
    /\ inflight = 1 => pc = "probe"
    /\ \A i \in Probes : \A j \in Probes :
          i < j => \E h \in ProbeResolved : i < h /\ h < j

\* the second probe of a flow is in flight
C7_Witness ==
    /\ inflight = 1
    /\ Cardinality(Probes) >= 2

\* C8: a transport failure of a status probe ends the flow there: the flow
\* fails with the Http error of that failure, nothing is issued or activated
\* after it, and the slot is as the failed probe found it.
C8_PollTransportFailureAborts ==
    \A i \in At("probe_err") :
        /\ i = Len(events)
        /\ pc = "done"
        /\ outcome = Failed(ErrFromHttp(events[i].cause))
        /\ primary = events[i].slot
        /\ entry = "register" => Cardinality(At("activate")) = 1

\* a register() flow whose second probe failed with ticks left
C8_Witness ==
    /\ entry = "register"
    /\ Happened("probe_err")
    /\ Cardinality(Probes) >= 2
    /\ take_remaining > 0

\* C9: when the unsigned PUT fails with anything but a 401, register()
\* fails with the Http error of that failure; nothing follows the failure
\* (no second PUT, no poll, no activation) and the slot is unchanged.
C9_NonChallengeFailure ==
    \A i \in At("unsigned_err") :
        /\ events[i].cause \in HttpErrors
        /\ i = Len(events)
        /\ Len(events) = 2
        /\ pc = "done"
        /\ outcome = Failed(ErrFromHttp(events[i].cause))
        /\ primary = primary0

\* the unsigned PUT answered 404, over a key store that holds a key
C9_Witness ==
    /\ \E i \in At("unsigned_err") : events[i].cause.status = 404
    /\ primary0 # NoKey

\* C10: when the unsigned PUT succeeds, register() fails with Unexpected;
\* nothing follows (no signed PUT, no poll, no activation) and the slot is
\* unchanged.
C10_UnexpectedSuccess ==
    \A i \in At("unsigned_ok") :
        /\ i = Len(events)
        /\ Len(events) = 2
        /\ pc = "done"
        /\ outcome = Failed(Err("Unexpected"))
        /\ primary = primary0

\* the unsigned PUT succeeded, over a key store that holds a key
C10_Witness ==
    /\ Happened("unsigned_ok")
    /\ primary0 # NoKey

\* the body of the 401 challenge of the flow
ChallengeBody == unwrap(challenge)

\* C11: a 401 whose body parses but carries no authenticationKey ends the
\* flow with InvalidTpmToken; nothing follows the 401 (no activation, no
\* second PUT) and the slot is unchanged.
C11_MissingAuthenticationKey ==
    (is_some(challenge) /\ ChallengeBody.json
        /\ ~is_some(ChallengeBody.authentication_key)) =>
        /\ pc = "done"
        /\ outcome = Failed(Err("InvalidTpmToken"))
        /\ Len(events) = 2
        /\ events[2].ev = "unsigned_401"
        /\ primary = primary0

\* a 401 without a key, over a key store that holds a key
C11_Witness ==
    /\ is_some(challenge)
    /\ ChallengeBody.json
    /\ ~is_some(ChallengeBody.authentication_key)
    /\ primary0 # NoKey

\* C15 as stated: a 401 whose body cannot be parsed ends the flow with
\* InvalidTpmToken, no key is activated and no second PUT is attempted.
C15_AsStated ==
    (is_some(challenge) /\ ~ChallengeBody.json) =>
        /\ pc = "done"
        /\ outcome = Failed(Err("InvalidTpmToken"))
        /\ Len(events) = 2
        /\ primary = primary0

\* C15, amended: a 401 whose body cannot be parsed ends the flow with the
\* error of the JSON parser (a serialization error, not InvalidTpmToken); no
\* key is activated and no second PUT is attempted.
C15_UnparsableBody ==
    (is_some(challenge) /\ ~ChallengeBody.json) =>
        /\ pc = "done"
        /\ outcome = Failed(ErrFromSerde)
        /\ outcome.error.kind # "InvalidTpmToken"
        /\ Len(events) = 2
        /\ events[2].ev = "unsigned_401"
        /\ primary = primary0

\* a 401 with an unparsable body, over a key store that holds a key
C15_Witness ==
    /\ is_some(challenge)
    /\ ~ChallengeBody.json
    /\ primary0 # NoKey

\* C12: a register() flow issues at most one unsigned and one signed PUT,
\* the unsigned one first; when the signed PUT fails, whatever the status
\* (a second 401 included), the flow ends there with the Http error of that
\* failure: no further PUT, no second activation, no poll.
C12_AtMostTwoPuts ==
    /\ Cardinality(At("put_unsigned")) <= 1
    /\ Cardinality(At("put_signed")) <= 1
    /\ \A i \in At("put_signed") : \E j \in At("put_unsigned") : j < i
    /\ \A i \in At("signed_err") :
          /\ events[i].cause \in HttpErrors
          /\ i = Len(events)
          /\ pc = "done"
          /\ outcome = Failed(ErrFromHttp(events[i].cause))
          /\ Probes = {}
          /\ Cardinality(At("activate")) = 1
          /\ primary = events[i].slot

\* the signed PUT answered with a second 401
C12_Witness ==
    \E i \in At("signed_err") :
        /\ events[i].cause = [type |-> "ServiceError", status |-> 401]
        /\ Cardinality(At("put_unsigned")) = 1
        /\ Cardinality(At("put_signed")) = 1

\* every probe of the budget has returned a skippable result
Exhausted == retry_count > 0 /\ Cardinality(At("probe_pending")) = retry_count

\* the terminal result of a register() flow lacks deviceId or assignedHub
C13_Incomplete ==
    /\ entry = "register"
    /\ Returned
    /\ is_some(final_result)
    /\ ~is_some(Terminal.device_id) \/ ~is_some(Terminal.assigned_hub)

\* what register() returns on success is a complete pair of the result
C13_NoPartialPair ==
    (entry = "register" /\ outcome.tag = "ok") =>
        /\ is_some(final_result)
        /\ is_some(Terminal.device_id)
        /\ is_some(Terminal.assigned_hub)
        /\ outcome.pair = C1_Pair

\* C13 as stated: register() fails with NotAssigned when the budget is
\* exhausted and when the terminal result lacks deviceId or assignedHub, and
\* never returns a pair with a missing component.
C13_AsStated ==
    /\ (entry = "register" /\ Returned /\ Exhausted) =>
          outcome = Failed(Err("NotAssigned"))
    /\ C13_Incomplete => outcome = Failed(Err("NotAssigned"))
    /\ C13_NoPartialPair

\* C13, amended: register() fails with NotAssigned when the budget is
\* exhausted; when the terminal result lacks deviceId or assignedHub it
\* fails: with NotAssigned, or, when the result carries a
\* tpm.authenticationKey, with the error of decoding that key (not base64)
\* or of the key store refusing its activation; it never returns a pair
\* with a missing component.
C13_NotAssigned ==
    /\ (entry = "register" /\ Returned /\ Exhausted) =>
          outcome = Failed(Err("NotAssigned"))
    /\ C13_Incomplete =>
          \/ outcome = Failed(Err("NotAssigned"))
          \/ /\ HasFinalKey(Terminal)
             /\ ~base64_decode(FinalKeyString(Terminal)).ok
             /\ outcome = Failed(Err("Base64"))
          \/ /\ HasFinalKey(Terminal)
             /\ base64_decode(FinalKeyString(Terminal)).ok
             /\ outcome = Failed(Err("KeyStore"))
             /\ events[Len(events)].ev = "probe_terminal"
    /\ C13_NoPartialPair

\* a terminal result with its key and deviceId but no assignedHub
C13_Witness ==
    /\ C13_Incomplete
    /\ is_some(Terminal.device_id)
    /\ HasFinalKey(Terminal)
    /\ outcome = Failed(Err("NotAssigned"))

\* C14: the skip predicate answers TRUE exactly when the probe's registration
\* result is absent or its status is "assigning" in any letter case, FALSE
\* otherwise, and always answers (a boolean, never an error).
C14_SkippablePredicate ==
    is_some(probed) =>
        /\ unwrap(probed).skippable \in BOOLEAN
        /\ unwrap(probed).skippable =
              (\/ ~is_some(unwrap(probed).status)
               \/ unwrap(unwrap(probed).status) \in AssigningSpellings)

\* a probe answered "ASSIGNING" in capitals and was skipped
C14_Witness ==
    /\ is_some(probed)
    /\ unwrap(probed).status = Some(STR_ASSIGNING)
    /\ unwrap(probed).skippable
    /\ Happened("probe_pending")

\* the key the service's 401 challenge carries, decoded
ChallengeKey == base64_decode(unwrap(ChallengeBody.authentication_key)).bytes

\* activation i is the activation of the challenge key: it follows the 401
\* and precedes every probe
IsChallengeActivation(i) ==
    /\ is_some(challenge)
    /\ is_some(ChallengeBody.authentication_key)
    /\ events[i].key = ChallengeKey
    /\ events[i].slot = ChallengeKey
    /\ \E h \in At("unsigned_401") : h < i
    /\ \A j \in Probes : i < j

\* activation i is the activation of the final key: it follows the terminal
\* probe answer and nothing follows it
IsFinalActivation(i) ==
    /\ is_some(final_result)
    /\ HasFinalKey(Terminal)
    /\ events[i].key = base64_decode(FinalKeyString(Terminal)).bytes
    /\ events[i].slot = events[i].key
    /\ \E h \in At("probe_terminal") : h < i
    /\ i = Len(events)

\* C16: during a flow the 'primary' slot holds what it held before the flow,
\* or the challenge key, or the final key; there are at most two activations,
\* the challenge key's first and the final key's second; a flow that stops
\* between the two leaves the challenge key in the slot.
C16_SlotContents ==
    /\ Cardinality(At("activate")) <= 2
    /\ Cardinality(At("activate")) = 0 => primary = primary0
    /\ Cardinality(At("activate")) = 1 =>
          \A i \in At("activate") :
              /\ IsChallengeActivation(i)
              /\ primary = ChallengeKey
    /\ Cardinality(At("activate")) = 2 =>
          \E i, j \in At("activate") :
              /\ i < j
              /\ IsChallengeActivation(i)
              /\ IsFinalActivation(j)
              /\ primary = events[j].key

\* a flow that stopped after the challenge key's activation, at a terminal
\* answer without a final key, with the challenge key left in the slot
C16_Witness ==
    /\ pc = "done"
    /\ Cardinality(At("activate")) = 1
    /\ is_some(final_result)
    /\ ~HasFinalKey(Terminal)
    /\ primary # primary0
    /\ primary = ChallengeKey

\* C17: when the interval timer fails on a tick the polling loop is over at
\* once: no probe is issued for that tick or for a later one although ticks
\* were left in the budget, the flow's result is the TimerError, and the
\* key store is left as it was.
C17_TimerFailureAborts ==
    \A i \in At("timer_err") :
        /\ i = Len(events)
        /\ pc = "done"
        /\ outcome = Failed(Err("TimerError"))
        /\ inflight = 0
        /\ take_remaining > 0
        /\ Cardinality(Probes) = retry_count - take_remaining
        /\ \A j \in Probes : j < i
        /\ primary = events[i].slot

\* register() whose timer failed after a first probe was answered 'pending'
C17_Witness ==
    /\ entry = "register"
    /\ Happened("timer_err")
    /\ Happened("probe_pending")
    /\ outcome = Failed(Err("TimerError"))

\* the least integer not below a / b
CeilDiv(a, b) == (a + b - 1) \div b

\* C19: the tick budget register() hands to the polling loop is
\* ceil(timeout / interval) + 1, that is 13 for 120 s and 10 s, and a
\* register() flow issues at most 13 status polls.
C19_TickBudget ==
    entry = "register" =>
        /\ (pc \in {"polling", "probe"} \/ Probes # {}) =>
              /\ retry_count = CeilDiv(DPS_ASSIGNMENT_TIMEOUT_SECS,
                                       DPS_ASSIGNMENT_RETRY_INTERVAL_SECS) + 1
              /\ retry_count = 13
        /\ Cardinality(Probes) <= 13
        /\ Cardinality(Probes) = 13 => take_remaining = 0

\* a register() flow that has issued its thirteenth poll
C19_Witness ==
    /\ entry = "register"
    /\ Cardinality(Probes) = 13
    /\ Cardinality(At("probe_pending")) = 12

\* the calls of get the state remembers
TokenCalls ==
    (IF is_some(token_call) THEN {unwrap(token_call)} ELSE {}) \cup
    (IF is_some(token_prev) THEN {unwrap(token_prev)} ELSE {})

\* two calls of get with the same key and expiry whose identities are the
\* same up to the case of their letters
SameInputsUpToCase(a, b) ==
    /\ a.self.key = b.self.key
    /\ a.expiry = b.expiry
    /\ eq_ignore_ascii_case(a.self.scope_id, b.self.scope_id)
    /\ eq_ignore_ascii_case(a.self.registration_id, b.self.registration_id)

\* C18: two calls of get with the same key, expiry, scope_id and
\* registration_id give the same token, and so do two calls whose scope_id
\* and registration_id differ only in the case of their letters; when the
\* key's sign fails, get fails and gives no token.
C18_TokenFunction ==
    /\ \A a, b \in TokenCalls :
          (SameInputsUpToCase(a, b) /\ a.sign_ok /\ b.sign_ok) =>
              /\ a.result.ok
              /\ is_some(a.result.token)
              /\ a.result = b.result
    /\ \A a \in TokenCalls :
          ~a.sign_ok =>
              /\ ~a.result.ok
              /\ a.result.token = None
              /\ a.result.error = ErrFromSign

\* tokens asked of two sources whose identities differ in case only
C18_Witness ==
    /\ is_some(token_call)
    /\ is_some(token_prev)
    /\ SameInputsUpToCase(unwrap(token_call), unwrap(token_prev))
    /\ unwrap(token_call).self.scope_id # unwrap(token_prev).self.scope_id
    /\ unwrap(token_call).self.registration_id
          # unwrap(token_prev).self.registration_id
    /\ unwrap(token_call).result.ok
    /\ unwrap(token_call).result.token = unwrap(token_prev).result.token

\* the flows that hold the handle while starting request r
Holding(r) == {f \in Flows : flows[f].pc = "held" /\ flows[f].request = r}

\* the flows that hold the handle as readers: unsigned PUTs and status polls
HoldingAsReader == Holding("put_unsigned") \cup Holding("get")

\* C20: while a flow holds the shared client handle for the signed PUT it
\* holds it as the only writer and no unsigned PUT or status poll holds it;
\* while an unsigned PUT or a status poll holds it there is no writer; the
\* holders are either any number of readers or one writer.
C20_ReaderWriterExclusion ==
    /\ \A f \in Holding("put_signed") :
          /\ rwlock.writer = Some(f)
          /\ rwlock.readers = {}
          /\ HoldingAsReader = {}
          /\ Holding("put_signed") = {f}
    /\ \A f \in HoldingAsReader :
          /\ f \in rwlock.readers
          /\ rwlock.writer = None
          /\ Holding("put_signed") = {}
    /\ rwlock.readers = HoldingAsReader
    /\ rwlock.writer # None => rwlock.readers = {}

\* an unsigned PUT and a status poll hold the handle together while a signed
\* PUT waits for it
C20_Witness ==
    /\ Holding("put_unsigned") # {}
    /\ Holding("get") # {}
    /\ Cardinality(rwlock.readers) >= 2
    /\ \E f \in Flows : flows[f] = [pc |-> "wait", request |-> "put_signed"]

\* the terminal result of a register() flow carries a final key but lacks
\* deviceId or assignedHub
C21_Case == C13_Incomplete /\ HasFinalKey(Terminal)

\* C21: when the terminal result carries tpm.authenticationKey but lacks
\* deviceId or assignedHub, the NotAssigned failure of register() comes after
\* the activation of the final key: the activation follows the terminal
\* answer, nothing follows it, and the slot holds the final key, not the
\* challenge key it held before.  (A flow of this case that does not end in
\* NotAssigned has failed at the key, before its activation.)
C21_NotAssignedAfterActivation ==
    C21_Case =>
        /\ outcome.tag = "err"
        /\ outcome = Failed(Err("NotAssigned")) =>
              /\ Cardinality(At("activate")) = 2
              /\ \E j \in At("activate") : IsFinalActivation(j)
              /\ primary = base64_decode(FinalKeyString(Terminal)).bytes
        /\ outcome # Failed(Err("NotAssigned")) =>
              /\ outcome.error.kind \in {"Base64", "KeyStore"}
              /\ Cardinality(At("activate")) = 1
              /\ primary = ChallengeKey

\* NotAssigned for a missing hub, with the slot overwritten: it held the
\* challenge key and holds another key now
C21_Witness ==
    /\ C21_Case
    /\ outcome = Failed(Err("NotAssigned"))
    /\ primary # ChallengeKey
    /\ primary # primary0

\* the terminal result of a register() flow has no tpm section, or a tpm
\* section without authenticationKey
C22_Case ==
    /\ entry = "register"
    /\ Returned
    /\ is_some(final_result)
    /\ ~HasFinalKey(Terminal)

\* C22: a terminal result without tpm.authenticationKey makes register()
\* fail with NotAssigned, deviceId and assignedHub present or not; the flow
\* has activated the challenge key only, the terminal answer is the last
\* thing that happened, and the slot holds the challenge key.
C22_MissingFinalKey ==
    C22_Case =>
        /\ outcome = Failed(Err("NotAssigned"))
        /\ Cardinality(At("activate")) = 1
        /\ \A i \in At("activate") : \A j \in At("probe_terminal") : i < j
        /\ events[Len(events)].ev = "probe_terminal"
        /\ primary = ChallengeKey

\* a complete result (deviceId and assignedHub) whose tpm section has no key
C22_Witness ==
    /\ C22_Case
    /\ is_some(Terminal.tpm)
    /\ is_some(Terminal.device_id)
    /\ is_some(Terminal.assigned_hub)
    /\ outcome = Failed(Err("NotAssigned"))

\* the signed PUT was answered with success and no operation status
C23_Case ==
    /\ entry = "register"
    /\ is_some(signed_status)
    /\ unwrap(signed_status) = None

\* no status poll was issued and the slot holds the challenge key
C23_NoPoll ==
    /\ pc = "done"
    /\ Probes = {}
    /\ retry_count = 0
    /\ events[Len(events)].ev = "signed_ok"
    /\ Cardinality(At("activate")) = 1
    /\ primary = ChallengeKey

\* C23 as stated: a signed PUT answered with success and no operation status
\* makes register() fail with NotAssigned, without a status poll, the slot
\* keeping the challenge key.
C23_AsStated ==
    C23_Case => (outcome = Failed(Err("NotAssigned")) /\ C23_NoPoll)

\* C23, amended: a signed PUT answered with success and no operation status
\* makes register() fail without a status poll, the slot keeping the
\* challenge key: with NotAssigned when the key store gives the 'primary'
\* key, and with the key store's error when it does not.
C23_EmptySignedResponse ==
    C23_Case =>
        /\ key_store_env.step = "signed"
        /\ outcome = IF key_store_env.get_ok
                     THEN Failed(Err("NotAssigned")) ELSE Failed(Err("KeyStore"))
        /\ C23_NoPoll

\* the empty answer with the key store serving: NotAssigned
C23_Witness ==
    /\ C23_Case
    /\ key_store_env.get_ok
    /\ outcome = Failed(Err("NotAssigned"))
    /\ primary # primary0

\* the 401 challenge carried a key that decodes, so the key store is called
ChallengeKeyDecodes ==
    /\ is_some(challenge)
    /\ ChallengeBody.json
    /\ is_some(ChallengeBody.authentication_key)
    /\ base64_decode(unwrap(ChallengeBody.authentication_key)).ok

\* the flow is over with the key store's error
KeyStoreAbort == pc = "done" /\ outcome = Failed(Err("KeyStore"))

\* the key store refused a call of the challenge step
C24_ChallengeCase ==
    /\ entry = "register"
    /\ key_store_env.step = "unsigned"
    /\ ChallengeKeyDecodes
    /\ ~key_store_env.act_ok \/ ~key_store_env.get_ok

\* the key store refused the get that follows the signed PUT's answer
C24_SignedCase ==
    /\ entry = "register"
    /\ key_store_env.step = "signed"
    /\ is_some(signed_status)
    /\ ~key_store_env.get_ok

\* the key store refused the activation of the final key
C24_FinalCase ==
    /\ entry = "register"
    /\ key_store_env.step = "probe"
    /\ is_some(final_result)
    /\ HasFinalKey(Terminal)
    /\ base64_decode(FinalKeyString(Terminal)).ok
    /\ ~key_store_env.act_ok

\* C24: a key-store failure ends the flow before its next request.  A failed
\* activation or get of the challenge key: no signed PUT.  A failed get after
\* the signed PUT's answer: no status poll.  A failed activation of the final
\* key: register() returns the key store's error and no pair.
C24_KeyStoreFailureAborts ==
    /\ C24_ChallengeCase =>
          /\ KeyStoreAbort
          /\ ~Happened("put_signed")
          /\ Probes = {}
          /\ ~key_store_env.act_ok => (At("activate") = {} /\ primary = primary0)
          /\ key_store_env.act_ok => primary = ChallengeKey
    /\ C24_SignedCase =>
          /\ KeyStoreAbort
          /\ Probes = {}
          /\ retry_count = 0
          /\ events[Len(events)].ev = "signed_ok"
    /\ C24_FinalCase =>
          /\ KeyStoreAbort
          /\ outcome.pair = <<>>
          /\ events[Len(events)].ev = "probe_terminal"
          /\ primary = ChallengeKey

\* the signed PUT was answered with an operation status and the key store
\* then refused the get
C24_Witness ==
    /\ C24_SignedCase
    /\ unwrap(signed_status) # None
    /\ KeyStoreAbort

\* flow f holds the shared client handle, as reader or as writer
HoldsLock(f) == f \in rwlock.readers \/ rwlock.writer = Some(f)

\* flow f waits in read() or write()
WaitsForLock(f) == flows[f].pc = "wait"

\* C25: a flow holds the lock on the shared client handle only while it
\* starts a request, not while it awaits the response or a tick, and not when
\* it comes to its next request: the write() of the signed PUT does not wait
\* for the read lock of the same flow's unsigned PUT.  No flow is dead-locked
\* on the lock: a waiting flow can take it, or waits for flows that are
\* starting their requests and give it back without waiting for anything.
C25_LockOnlyWhileStarting ==
    /\ \A f \in Flows : HoldsLock(f) <=> flows[f].pc = "held"
    /\ \A f \in Flows :
          (WaitsForLock(f) /\ flows[f].request = "put_signed") =>
              f \notin rwlock.readers
    /\ \A f \in Flows :
          WaitsForLock(f) =>
              \/ rwlock_can_lock(rwlock, request_lock(flows[f].request))
              \/ \E g \in Flows \ {f} : flows[g].pc = "held" /\ HoldsLock(g)

\* every flow has sent its unsigned PUT; one of them has been challenged and
\* finds the handle free for its write()
C25_Witness ==
    /\ \E f \in Flows :
          /\ WaitsForLock(f)
          /\ flows[f].request = "put_signed"
          /\ rwlock_can_lock(rwlock, "write")
    /\ \E g \in Flows : flows[g] = [pc |-> "sent", request |-> "put_unsigned"]

\* the requests the flow has signed through a client of its own
SignedRequests == At("put_signed") \cup Probes

\* C26: the token source bound to the shared client handle is at every step
\* of every flow what it was at construction; the first PUT of a flow, the
\* first flow's and a later one's, goes out through the shared handle and so
\* without signature, while the signed PUT and the polls are signed with the
\* key their own copy of the client was bound to.
C26_SharedHandleUnchanged ==
    /\ client = ClientAtConstruction
    /\ \A i \in At("put_unsigned") : events[i].key = NoKey
    /\ \A i \in SignedRequests : events[i].key \in KeyBytes

\* a flow that sent its signed PUT and polled is over, and the shared handle
\* is as it was
C26_Witness ==
    /\ entry = "register"
    /\ pc = "done"
    /\ Happened("put_signed")
    /\ Probes # {}
    /\ client = ClientAtConstruction

\* a register() flow is under way
Registering ==
    entry = "register" /\ pc \in {"unsigned_put", "signed_put", "polling", "probe"}

\* what a register() flow has sent so far keeps within its bounds
C27_Bounds ==
    entry = "register" =>
        /\ Cardinality(At("put_unsigned") \cup At("put_signed")) <= 2
        /\ Cardinality(Probes) <= RetryCount
        /\ Cardinality(At("probe_pending")) <= RetryCount

\* C27: with every request answered and the timer going on, a register()
\* flow comes to its end, a success or an error, having sent at most 2 PUTs
\* and at most retry_count GETs: a service that answers "assigning" to every
\* poll is polled retry_count times and no more.
C27_Terminates ==
    /\ []C27_Bounds
    /\ Registering ~> (entry = "register" /\ Returned)

\* the service answered "assigning" to all the polls of the budget, and the
\* flow is over
C27_Witness ==
    /\ entry = "register"
    /\ Returned
    /\ retry_count = RetryCount
    /\ Cardinality(At("probe_pending")) = RetryCount
    /\ unwrap(probed).status = Some(STR_assigning)

====
